---- MODULE Spec2Model ----
(***************************************************************************)
(* Model of generate_masks_with_Grounded_SAM_2.py: the keyword normalizer, *)
(* the image enumerator, the SAM2Predictor wrapper, the mask combiner and  *)
(* the per-image loop of main().                                           *)
(*                                                                         *)
(* Strings are sequences of one-character strings, so that endswith, +=    *)
(* and ' '.join are computed character by character.  A numpy array is a   *)
(* record [shape, data] with data the row-major (C order) flattening.      *)
(*                                                                         *)
(* Environment assumptions (spec.md section 6): images_dir exists and is   *)
(* readable, masks_dir exists and is writable, so os.listdir returns and   *)
(* cv2.imwrite either writes the file or raises.                           *)
(***************************************************************************)
EXTENDS Integers, Sequences, FiniteSets, TLC

VARIABLES
    pc,           \* position in main()
    argv,         \* sys.argv: the phrases given after --keywords, never assigned
    keywords,     \* args.keywords: the list of phrases (main, lines 87-91)
    i,            \* number of phrases the loop of line 89 has visited
    text,         \* the joined query string (line 94), detect_objects' text
    dir,          \* the content of images_dir: a set of entries
    image_files,  \* line 108: the filtered listing
    idx,          \* number of loop iterations started (line 113)
    image_file,   \* the loop variable of line 113
    image,        \* the PIL image of line 115
    sam_image,    \* the image context held by self.sam2_predictor (line 32)
    input_boxes,  \* line 120: the detector's boxes, an (N, 4) array
    masks,        \* lines 122-127
    written,      \* the paths cv2.imwrite has written, in order (line 129)
    err           \* the step whose exception terminated the run

vars == <<pc, argv, keywords, i, text, dir, image_files, idx, image_file, image,
          sam_image, input_boxes, masks, written, err>>

\* ------------------------------------------------------------------ bounds

MaxPhrases == 2

MaxPhraseLen == 2

MaxBoxes == 2

\* ----------------------------------------------------------------- strings

Chars == {"a", ".", " "}

RECURSIVE StringsUpTo(_)
StringsUpTo(n) ==
    IF n = 0 THEN {<<>>}
    ELSE LET shorter == StringsUpTo(n - 1)
         IN  shorter \cup {Append(s, c) : s \in {t \in shorter : Len(t) = n - 1}, c \in Chars}

RECURSIVE ListsUpTo(_, _)
ListsUpTo(S, n) ==
    IF n = 0 THEN {<<>>}
    ELSE LET shorter == ListsUpTo(S, n - 1)
         IN  shorter \cup {Append(l, s) : l \in {t \in shorter : Len(t) = n - 1}, s \in S}

\* str.endswith(suffix)
EndsWith(s, suffix) ==
    /\ Len(s) >= Len(suffix)
    /\ SubSeq(s, Len(s) - Len(suffix) + 1, Len(s)) = suffix

\* ------------------------------------------------------ keyword normalizer

\* the body of the loop of lines 89-91, with a period appended to every phrase
AppendPeriodAlways(phrase) == phrase \o <<".">>

\* lines 90-91: if not keywords[i].endswith('.'): keywords[i] += '.'
AppendPeriodIfMissing(phrase) ==
    IF ~EndsWith(phrase, <<".">>) THEN phrase \o <<".">> ELSE phrase

\* ' '.join with the separator left out
RECURSIVE JoinNoSpace(_)
JoinNoSpace(list) ==
    IF list = <<>> THEN <<>>
    ELSE IF Len(list) = 1 THEN list[1]
    ELSE list[1] \o JoinNoSpace(Tail(list))

\* line 94: ' '.join(keywords)
RECURSIVE Join(_)
Join(list) ==
    IF list = <<>> THEN <<>>
    ELSE IF Len(list) = 1 THEN list[1]
    ELSE list[1] \o <<" ">> \o Join(Tail(list))

\* ---------------------------------------------------------- the directory

Name_a_jpg  == <<"a", ".", "j", "p", "g">>
Name_b_jpeg == <<"b", ".", "j", "p", "e", "g">>
Name_c_JPG  == <<"c", ".", "J", "P", "G">>
Name_d_JPEG == <<"d", ".", "J", "P", "E", "G">>
Name_e_Jpg  == <<"e", ".", "J", "p", "g">>
Name_f_png  == <<"f", ".", "p", "n", "g">>
Name_g      == <<"g">>
Name_h_jpg  == <<"h", ".", "j", "p", "g">>

\* an entry of images_dir: its name, its kind and, for an image file, the
\* height and width of the picture it holds
Entry(name, kind, H, W) == [name |-> name, kind |-> kind, H |-> H, W |-> W]

DirCandidates ==
    { Entry(Name_a_jpg, "file", 1, 2), Entry(Name_b_jpeg, "file", 2, 1),
      Entry(Name_c_JPG, "file", 2, 2), Entry(Name_d_JPEG, "file", 2, 1),
      Entry(Name_e_Jpg, "file", 1, 2), Entry(Name_f_png, "file", 1, 1),
      Entry(Name_g, "dir", 0, 0),      Entry(Name_h_jpg, "dir", 0, 0) }

\* all orderings of a finite set, as sequences without repetition
RECURSIVE Orderings(_)
Orderings(S) ==
    IF S = {} THEN {<<>>}
    ELSE UNION { {<<x>> \o rest : rest \in Orderings(S \ {x})} : x \in S }

\* lines 109-110: the condition of the comprehension
IsListed(file) ==
    \/ EndsWith(file, <<".", "j", "p", "g">>)
    \/ EndsWith(file, <<".", "j", "p", "e", "g">>)
    \/ EndsWith(file, <<".", "J", "P", "G">>)
    \/ EndsWith(file, <<".", "J", "P", "E", "G">>)

\* lines 108-110: os.listdir yields every entry's name (files and
\* directories alike) in arbitrary order; the comprehension keeps the order
ListedFiles(d) == Orderings({e.name : e \in {x \in d : IsListed(x.name)}})

\* ------------------------------------------------------------ numpy arrays

Array(shape, data) == [shape |-> shape, data |-> data]

NoArray == Array(<<>>, <<>>)

RECURSIVE Prod(_)
Prod(shape) == IF shape = <<>> THEN 1 ELSE shape[1] * Prod(Tail(shape))

ndim(a) == Len(a.shape)

\* every array of the given shape with entries 0 or 1
BinaryArrays(shape) == {Array(shape, d) : d \in [1..Prod(shape) -> {0, 1}]}

\* a[None]: a new leading axis of length 1
NewAxis(a) == Array(<<1>> \o a.shape, a.data)

\* a.squeeze(1), for an array whose axis 1 has length 1
Squeeze1(a) == Array(<<a.shape[1]>> \o SubSeq(a.shape, 3, Len(a.shape)), a.data)

RECURSIVE SumOver(_, _, _, _)
SumOver(data, inner, j, n) ==
    IF n = 0 THEN 0 ELSE data[(n - 1) * inner + j] + SumOver(data, inner, j, n - 1)

\* np.sum(a, axis=0), where only the last slice along axis 0 is taken
SumAxis0LastOnly(a) ==
    LET inner == Prod(Tail(a.shape))
    IN  Array(Tail(a.shape),
              [j \in 1..inner |-> IF a.shape[1] = 0 THEN 0
                                  ELSE a.data[(a.shape[1] - 1) * inner + j]])

\* np.sum(a, axis=0): over an empty axis the sum is 0
SumAxis0(a) ==
    LET inner == Prod(Tail(a.shape))
    IN  Array(Tail(a.shape), [j \in 1..inner |-> SumOver(a.data, inner, j, a.shape[1])])

\* (a >= 0).astype(np.uint8)
NonNegativeAsUint8(a) == Array(a.shape, [j \in 1..Len(a.data) |-> IF a.data[j] >= 0 THEN 1 ELSE 0])

\* line 125: (a > 0).astype(np.uint8)
PositiveAsUint8(a) == Array(a.shape, [j \in 1..Len(a.data) |-> IF a.data[j] > 0 THEN 1 ELSE 0])

\* line 126: a * 255 on a uint8 array
Times255(a) == Array(a.shape, [j \in 1..Len(a.data) |-> (a.data[j] * 255) % 256])

\* line 126: np.repeat([a], 3, axis=0)
Repeat3(a) ==
    LET n == Len(a.data)
    IN  Array(<<3>> \o a.shape, [j \in 1..(3 * n) |-> a.data[((j - 1) % n) + 1]])

\* a.transpose(2, 1, 0) of a 3-dimensional array: new[i, j, k] = old[k, j, i]
Transpose210(a) ==
    LET s0 == a.shape[1]
        s1 == a.shape[2]
        s2 == a.shape[3]
    IN  Array(<<s2, s1, s0>>,
              [p \in 1..(s0 * s1 * s2) |->
                  LET k == (p - 1) % s0
                      q == (p - 1) \div s0
                      j == q % s1
                      ii == q \div s1
                  IN  a.data[(k * s1 + j) * s2 + ii + 1]])

\* line 127: a.transpose(1, 2, 0) of a 3-dimensional array: new[i, j, k] = old[k, i, j]
Transpose120(a) ==
    LET s0 == a.shape[1]
        s1 == a.shape[2]
        s2 == a.shape[3]
    IN  Array(<<s1, s2, s0>>,
              [p \in 1..(s0 * s1 * s2) |->
                  LET k == (p - 1) % s0
                      q == (p - 1) \div s0
                      j == q % s2
                      ii == q \div s2
                  IN  a.data[(k * s1 + ii) * s2 + j + 1]])

\* --------------------------------------------------- the PIL image, SAM2

Picture(name, H, W) == [name |-> name, H |-> H, W |-> W]

NoImage == Picture(<<>>, 0, 0)

\* SAM2ImagePredictor.predict(box=input_boxes, multimask_output=False) for the
\* image set before: a 3-dimensional array for a single box, an (N, 1, H, W)
\* array otherwise, with entries 0 or 1
SAM2ImagePredictorPredict(context, boxes) ==
    LET N == boxes.shape[1]
    IN  IF N = 1 THEN BinaryArrays(<<1, context.H, context.W>>)
        ELSE BinaryArrays(<<N, 1, context.H, context.W>>)

\* SAM2Predictor.predict, lines 42-50, applied to the masks of line 35
NormalizeShape(m) ==
    IF ndim(m) = 3 THEN NewAxis(m)
    ELSE IF ndim(m) = 4 THEN Squeeze1(m)
    ELSE m

\* os.path.join(masks_dir, image_file) with the extension forced to ".JPG"
RECURSIVE Stem(_)
Stem(file) ==
    IF file = <<>> \/ file[Len(file)] = "." THEN SubSeq(file, 1, Len(file) - 1)
    ELSE Stem(SubSeq(file, 1, Len(file) - 1))

OutPathJPG(masks_dir, file) ==
    [dir |-> masks_dir, name |-> Stem(file) \o <<".", "J", "P", "G">>]

\* line 129: os.path.join(masks_dir, image_file), for a bare file name
OutPath(masks_dir, file) == [dir |-> masks_dir, name |-> file]

MasksDir == "masks_dir"

\* ---------------------------------------------------------------- main()

\* argparse, nargs="+": one phrase or more
KeywordInputs == ListsUpTo(StringsUpTo(MaxPhraseLen), MaxPhrases) \ {<<>>}

InitLocals ==
    /\ argv = keywords
    /\ i = 0
    /\ text = <<>>
    /\ image_files = <<>>
    /\ idx = 0
    /\ image_file = <<>>
    /\ image = NoImage
    /\ sam_image = NoImage
    /\ input_boxes = NoArray
    /\ masks = NoArray
    /\ written = <<>>
    /\ err = ""

\* an exception handled per image: the loop goes on with the next file
ContinueWithNext(step) ==
    /\ pc' = "for"
    /\ err' = step
    /\ UNCHANGED <<argv, keywords, i, text, dir, image_files, idx, image_file, image,
                   sam_image, input_boxes, written>>

\* lines 113-129 hold no try/except: an exception leaves main()
Propagate(step) ==
    /\ pc' = "raised"
    /\ err' = step
    /\ UNCHANGED <<argv, keywords, i, text, dir, image_files, idx, image_file, image,
                   sam_image, input_boxes, written>>

\* lines 89-91: one iteration of the loop over range(len(keywords))
NormalizeStep ==
    /\ pc = "normalize"
    /\ i < Len(keywords)
    /\ keywords' = [keywords EXCEPT ![i + 1] = AppendPeriodIfMissing(keywords[i + 1])]
    /\ i' = i + 1
    /\ UNCHANGED <<pc, argv, text, dir, image_files, idx, image_file, image, sam_image,
                   input_boxes, masks, written, err>>

\* line 94, reached when the loop of line 89 is exhausted; the constructors
\* of lines 96-105 hold no state of the model
JoinKeywords ==
    /\ pc = "normalize"
    /\ i = Len(keywords)
    /\ text' = Join(keywords)
    /\ pc' = "listdir"
    /\ UNCHANGED <<argv, keywords, i, dir, image_files, idx, image_file, image, sam_image,
                   input_boxes, masks, written, err>>

\* lines 108-110
ListDir ==
    /\ pc = "listdir"
    /\ image_files' \in ListedFiles(dir)
    /\ pc' = "for"
    /\ UNCHANGED <<argv, keywords, i, text, dir, idx, image_file, image, sam_image,
                   input_boxes, masks, written, err>>

\* line 113: the next file of the list, or the end of main()
ForNext ==
    /\ pc = "for"
    /\ IF idx < Len(image_files)
       THEN /\ idx' = idx + 1
            /\ image_file' = image_files[idx + 1]
            /\ pc' = "open"
       ELSE /\ pc' = "done"
            /\ UNCHANGED <<idx, image_file>>
    /\ UNCHANGED <<argv, keywords, i, text, dir, image_files, image, sam_image,
                   input_boxes, masks, written, err>>

\* line 115: Image.open raises on a directory, and may raise on a file
Open ==
    /\ pc = "open"
    /\ \E e \in dir :
          /\ e.name = image_file
          /\ \/ /\ e.kind = "file"
                /\ image' = Picture(e.name, e.H, e.W)
                /\ pc' = "set_image"
                /\ UNCHANGED <<argv, keywords, i, text, dir, image_files, idx, image_file,
                               sam_image, input_boxes, masks, written, err>>
             \/ /\ Propagate("open")
                /\ UNCHANGED masks

\* set_image that keeps the context of the first image it was given
set_image_once ==
    /\ pc = "set_image"
    /\ \/ /\ sam_image' = IF sam_image = NoImage THEN image ELSE sam_image
          /\ pc' = "detect"
          /\ UNCHANGED <<argv, keywords, i, text, dir, image_files, idx, image_file, image,
                         input_boxes, masks, written, err>>
       \/ /\ Propagate("set_image")
          /\ UNCHANGED masks

\* line 117, SAM2Predictor.set_image (lines 31-32)
set_image ==
    /\ pc = "set_image"
    /\ \/ /\ sam_image' = image
          /\ pc' = "detect"
          /\ UNCHANGED <<argv, keywords, i, text, dir, image_files, idx, image_file, image,
                         input_boxes, masks, written, err>>
       \/ /\ Propagate("set_image")
          /\ UNCHANGED masks

\* line 120, DINODetector.detect_objects (lines 58-73): zero or more boxes
detect_objects ==
    /\ pc = "detect"
    /\ \/ /\ \E N \in 0..MaxBoxes : input_boxes' = Array(<<N, 4>>, <<>>)
          /\ pc' = "predict"
          /\ UNCHANGED <<argv, keywords, i, text, dir, image_files, idx, image_file, image,
                         sam_image, masks, written, err>>
       \/ /\ Propagate("detect")
          /\ UNCHANGED masks

\* line 122, SAM2Predictor.predict (lines 34-50)
predict ==
    /\ pc = "predict"
    /\ \/ /\ \E m \in SAM2ImagePredictorPredict(sam_image, input_boxes) :
                masks' = NormalizeShape(m)
          /\ pc' = "combine"
          /\ UNCHANGED <<argv, keywords, i, text, dir, image_files, idx, image_file, image,
                         sam_image, input_boxes, written, err>>
       \/ /\ Propagate("predict")
          /\ UNCHANGED masks

\* lines 124-126
Reduce(stack) == Repeat3(Times255(PositiveAsUint8(SumAxis0(stack))))

\* lines 124-127: transpose(1, 2, 0) raises ValueError unless its operand
\* has three axes; masks then holds the value of line 126
Combine ==
    /\ pc = "combine"
    /\ LET repeated == Reduce(masks)
       IN  IF ndim(repeated) = 3
           THEN /\ masks' = Transpose120(repeated)
                /\ pc' = "imwrite"
                /\ UNCHANGED <<argv, keywords, i, text, dir, image_files, idx, image_file,
                               image, sam_image, input_boxes, written, err>>
           ELSE /\ masks' = repeated
                /\ Propagate("combine")

\* line 129
imwrite ==
    /\ pc = "imwrite"
    /\ \/ /\ written' = Append(written, OutPath(MasksDir, image_file))
          /\ pc' = "for"
          /\ UNCHANGED <<argv, keywords, i, text, dir, image_files, idx, image_file, image,
                         sam_image, input_boxes, masks, err>>
       \/ /\ Propagate("imwrite")
          /\ UNCHANGED masks

\* -------------------------------------------------------- specifications

\* a run of main() on a small command line and a small directory
PipelineKeywords == { << <<"a", ".">>, <<"a", " ">> >> }

PipelineEntries ==
    { Entry(Name_a_jpg, "file", 1, 2), Entry(Name_d_JPEG, "file", 2, 1),
      Entry(Name_c_JPG, "file", 2, 2),
      Entry(Name_f_png, "file", 1, 1), Entry(Name_h_jpg, "dir", 0, 0) }

Init ==
    /\ pc = "normalize"
    /\ keywords \in PipelineKeywords
    /\ dir \in SUBSET PipelineEntries
    /\ InitLocals

Next ==
    \/ NormalizeStep
    \/ JoinKeywords
    \/ ListDir
    \/ ForNext
    \/ Open
    \/ set_image
    \/ detect_objects
    \/ predict
    \/ Combine
    \/ imwrite

Spec == Init /\ [][Next]_vars

\* the keyword normalizer on every command line within the bounds
InitKeywords ==
    /\ pc = "normalize"
    /\ keywords \in KeywordInputs
    /\ dir = {}
    /\ InitLocals

NextKeywords == NormalizeStep \/ JoinKeywords

SpecKeywords == InitKeywords /\ [][NextKeywords]_vars

\* the image enumerator on every directory made of the candidate entries
InitEnum ==
    /\ pc = "listdir"
    /\ keywords = <<>>
    /\ dir \in SUBSET DirCandidates
    /\ InitLocals

NextEnum == ListDir

SpecEnum == InitEnum /\ [][NextEnum]_vars

\* the mask combiner on every stack of N >= 1 masks of the candidate sizes
ImageDims == {<<1, 2>>, <<2, 1>>, <<2, 2>>}

InitCombine ==
    /\ pc = "combine"
    /\ argv = <<>>
    /\ keywords = <<>>
    /\ dir = {}
    /\ i = 0
    /\ text = <<>>
    /\ image_files = <<Name_a_jpg>>
    /\ idx = 1
    /\ image_file = Name_a_jpg
    /\ \E hw \in ImageDims : image = Picture(Name_a_jpg, hw[1], hw[2])
    /\ sam_image = image
    /\ \E N \in 1..MaxBoxes :
          /\ input_boxes = Array(<<N, 4>>, <<>>)
          /\ masks \in BinaryArrays(<<N, image.H, image.W>>)
    /\ written = <<>>
    /\ err = ""

NextCombine == Combine

SpecCombine == InitCombine /\ [][NextCombine]_vars

\* ------------------------------------------------------------ the claims

\* the number of boxes the detector returned for the current image
NBoxes == IF input_boxes = NoArray THEN -1 ELSE input_boxes.shape[1]

\* a[n, y, x] of a 3-dimensional array, indices from 0
At3(a, n, y, x) == a.data[(n * a.shape[2] + y) * a.shape[3] + x + 1]

Values(a) == {a.data[j] : j \in 1..Len(a.data)}

\* C1: whatever the number N >= 0 of boxes, SAM2Predictor.predict returns a
\* 3-dimensional array shaped (N, H, W).
C1_PredictReturnsNHW ==
    pc = "combine" => masks.shape = <<NBoxes, image.H, image.W>>

\* C2: for a stack of N >= 1 masks shaped (N, H, W) with entries 0 or 1, the
\* combined mask is 255 at a pixel set in at least one mask and 0 elsewhere
\* (in each of its three channels).
C2_CombinedIsScaledOr ==
    [][(pc = "combine" /\ ndim(masks) = 3 /\ masks.shape[1] >= 1) =>
         /\ pc' = "imwrite"
         /\ masks'.shape = <<masks.shape[2], masks.shape[3], 3>>
         /\ \A y \in 0..(masks.shape[2] - 1), x \in 0..(masks.shape[3] - 1), c \in 0..2 :
               At3(masks', y, x, c) =
                  IF \E n \in 0..(masks.shape[1] - 1) : At3(masks, n, y, x) = 1
                  THEN 255 ELSE 0]_vars

C2_Witness ==
    /\ pc = "imwrite"
    /\ NBoxes >= 2
    /\ Values(masks) = {0, 255}

\* C3 as stated: the array handed to the file write holds only 0 and 255 and
\* is shaped (H, W).
C3_WrittenIsHW ==
    pc = "imwrite" => /\ Values(masks) \subseteq {0, 255}
                      /\ masks.shape = <<image.H, image.W>>

\* C3 amended: the array handed to the file write holds only 0 and 255 and is
\* shaped (H, W, 3), its three channels equal.
C3_WrittenIsHW3 ==
    pc = "imwrite" =>
        /\ Values(masks) \subseteq {0, 255}
        /\ masks.shape = <<image.H, image.W, 3>>
        /\ \A y \in 0..(image.H - 1), x \in 0..(image.W - 1), c \in 0..2 :
              At3(masks, y, x, c) = At3(masks, y, x, 0)

C3_Witness ==
    /\ pc = "imwrite"
    /\ image.H # image.W
    /\ 255 \in Values(masks)
    /\ idx = 2

RECURSIVE StripPeriods(_)
StripPeriods(phrase) ==
    IF phrase # <<>> /\ phrase[Len(phrase)] = "."
    THEN StripPeriods(SubSeq(phrase, 1, Len(phrase) - 1))
    ELSE phrase

\* 1 for a phrase that does not end with a period, else 0
Missing(phrase) == IF phrase # <<>> /\ phrase[Len(phrase)] = "." THEN 0 ELSE 1

\* the place in the query before which phrase k starts, when every phrase
\* that lacks a final period got one and one space follows each phrase
RECURSIVE Offset(_, _)
Offset(phrases, k) ==
    IF k = 1 THEN 0
    ELSE Offset(phrases, k - 1) + Len(phrases[k - 1]) + Missing(phrases[k - 1]) + 1

\* C5 as stated: the query is the phrases in input order, each with exactly
\* one trailing period, one space between consecutive phrases.
C5_ExactlyOnePeriod ==
    pc = "listdir" =>
        LET n == Len(argv)
            one(k) == StripPeriods(argv[k]) \o <<".">>
            start(k) == Offset([j \in 1..n |-> StripPeriods(argv[j])], k)
        IN  /\ Len(text) = start(n) + Len(one(n))
            /\ \A k \in 1..n :
                  /\ SubSeq(text, start(k) + 1, start(k) + Len(one(k))) = one(k)
                  /\ k < n => text[start(k) + Len(one(k)) + 1] = " "

\* C5 amended: the query is the phrases in input order, each ending with a
\* period (one is appended to a phrase that does not end with one, a phrase
\* ending with periods keeps them all), one space between consecutive phrases.
C5_PeriodAppendedIfMissing ==
    pc = "listdir" =>
        LET n == Len(argv)
            end(k) == Offset(argv, k) + Len(argv[k]) + Missing(argv[k])
        IN  /\ Len(text) = end(n)
            /\ \A k \in 1..n :
                  /\ SubSeq(text, Offset(argv, k) + 1, Offset(argv, k) + Len(argv[k])) = argv[k]
                  /\ text[end(k)] = "."
                  /\ k < n => text[end(k) + 1] = " "

C5_Witness ==
    /\ pc = "listdir"
    /\ Len(argv) = 2
    /\ argv[1] = <<"a", " ">>
    /\ argv[2] = <<".">>
    /\ text = <<"a", " ", ".", " ", ".">>

Lower(c) ==
    CASE c = "J" -> "j" [] c = "P" -> "p" [] c = "E" -> "e" [] c = "G" -> "g"
      [] OTHER -> c

LowerCase(s) == [j \in 1..Len(s) |-> Lower(s[j])]

\* C6: the enumerator returns exactly the regular files whose extension is
\* jpg or jpeg in any mix of upper and lower case.
C6_ExactlyJpegFiles ==
    pc = "for" =>
        {image_files[k] : k \in 1..Len(image_files)} =
            {e.name : e \in {x \in dir :
                /\ x.kind = "file"
                /\ \/ EndsWith(LowerCase(x.name), <<".", "j", "p", "g">>)
                   \/ EndsWith(LowerCase(x.name), <<".", "j", "p", "e", "g">>)}}

\* C7: once a step has raised while image k was being processed, main() has
\* ended: the masks of the k-1 images before it, and no others, are written.
C7_ExceptionEndsRun ==
    err # "" =>
        /\ pc = "raised"
        /\ idx >= 1
        /\ Len(written) = idx - 1
        /\ \A k \in 1..(idx - 1) : written[k].name = image_files[k]

C7_Witness ==
    /\ pc = "raised"
    /\ err = "predict"
    /\ idx = 2
    /\ Len(image_files) = 3
    /\ Len(written) = 1

\* the number of images whose processing has completed
Completed == IF pc \in {"for", "done"} THEN idx ELSE IF idx = 0 THEN 0 ELSE idx - 1

\* C8: the files written are exactly one per completed image, in masks_dir,
\* under the image's own file name, and none is written twice.
C8_OneFilePerCompletedImage ==
    /\ Len(written) = Completed
    /\ \A k \in 1..Len(written) : written[k] = [dir |-> MasksDir, name |-> image_files[k]]
    /\ \A j, k \in 1..Len(written) : written[j] = written[k] => j = k

C8_Witness ==
    /\ pc = "done"
    /\ Len(written) = 3
    /\ written[1].name = Name_d_JPEG

PerImageSteps == {"open", "set_image", "detect", "predict", "combine", "imwrite"}

\* C9: per image the steps run in the order open, set_image, detect, predict,
\* combine, write, all on the same image, before the next image begins; a
\* prediction is made with the current image as the predictor's context.
C9_Sequential ==
    /\ [](pc \in {"detect", "predict"} =>
            /\ sam_image = image
            /\ sam_image.name = image_file
            /\ image_file = image_files[idx])
    /\ [](pc = "combine" =>
            /\ masks.shape[ndim(masks) - 1] = image.H
            /\ masks.shape[ndim(masks)] = image.W)
    /\ [][/\ pc \in PerImageSteps => (idx' = idx /\ image_file' = image_file)
          /\ (pc = "for" /\ pc' # "done") =>
                (pc' = "open" /\ idx' = idx + 1 /\ image_file' = image_files[idx + 1])
          /\ (pc = "open" /\ pc' # "raised") => pc' = "set_image"
          /\ (pc = "set_image" /\ pc' # "raised") => pc' = "detect"
          /\ (pc = "detect" /\ pc' # "raised") => pc' = "predict"
          /\ (pc = "predict" /\ pc' # "raised") => pc' = "combine"
          /\ (pc = "combine" /\ pc' # "raised") => pc' = "imwrite"
          /\ (pc = "imwrite" /\ pc' # "raised") => pc' = "for"]_vars

C9_Witness ==
    /\ pc = "predict"
    /\ idx = 2
    /\ sam_image.name = image_files[2]
    /\ image_files[1] # image_files[2]

\* C10: the append-period-if-missing step leaves every normalized phrase
\* unchanged, so normalizing twice yields the query of normalizing once.
C10_Idempotent ==
    /\ \A k \in 1..i : AppendPeriodIfMissing(keywords[k]) = keywords[k]
    /\ pc = "listdir" =>
          Join([k \in 1..Len(keywords) |-> AppendPeriodIfMissing(keywords[k])]) = text

C10_Witness ==
    /\ pc = "listdir"
    /\ Len(argv) = 2
    /\ argv[1] = <<"a">>
    /\ keywords[1] = <<"a", ".">>
    /\ argv[2] = <<".", ".">>

====
